---- MODULE Spec2Model ----
(***************************************************************************)
(* Arehs (src/src/Arehs.ts, lines 371-594): a promise pool that maps an    *)
(* asynchronous processor over an array with bounded concurrency.          *)
(*                                                                         *)
(* The model follows the JavaScript job model.  Every action is one job    *)
(* that runs to completion: a call made by the user (a builder call or     *)
(* mapAsync), one microtask of the class (the continuation of an await or  *)
(* a promise reaction), a timer callback, or the settlement of a promise   *)
(* returned by the user's processor.  Microtasks run in FIFO order; timer  *)
(* callbacks are macrotasks and run only when the microtask queue is       *)
(* empty.  A processor returns a promise (it does not throw synchronously);*)
(* the promise is already settled when it is returned, or it is settled by *)
(* a microtask of the user's code, which has its own place in the queue,   *)
(* or by a macrotask (a timer, I/O).  A later mapAsync call is likewise    *)
(* made from a microtask of the user or from a macrotask.                  *)
(* Builder calls are made before the first mapAsync, as in the README.     *)
(***************************************************************************)
EXTENDS Integers, Sequences, FiniteSets, TLC

\* ---- bounds of the model ----
MaxN == 2
MaxConcurrency == 1
MaxRetry == 1
MaxCalls == 2

\* ---- program constants ----
DefaultConcurrency == 10
DefaultTimeout == 0
DefaultRetryLimit == 0

VARIABLES
    input,               \* ghost: the array handed to create(), as it was
    data,                \* this.data (the same array object as the caller's)
    results,             \* this.results
    concurrency,         \* this.concurrency
    inFlightTasks,       \* this.inFlightTasks
    processedEntries,    \* this.processedEntries
    processor,           \* this.processor
    eventEmitter,        \* the listeners registered on this.eventEmitter
    promiseExecution,    \* this.promiseExecution and its state
    timeout,             \* this.timeout
    error,               \* this.error
    allowStopOnFailure,  \* this.allowStopOnFailure
    retryLimitCount,     \* this.retryLimitCount
    driver,              \* the position of executeTasks
    task,                \* per input item: the position of its _executeTask
    microtasks,          \* the microtask queue (jobs of this class)
    calls,               \* the handles returned by the mapAsync calls so far
    stoppedBy,           \* ghost: the item whose failure first ran the stop-on-failure branch
    thrown               \* the last builder call threw

vars == <<input, data, results, concurrency, inFlightTasks, processedEntries,
          processor, eventEmitter, promiseExecution, timeout, error,
          allowStopOnFailure, retryLimitCount, driver, task, microtasks,
          calls, stoppedBy, thrown>>

config == <<input, concurrency, timeout, allowStopOnFailure, retryLimitCount, thrown>>

\* ---- values ----
Items == 1 .. MaxN
Null == <<"null", 0>>
ProcessorError(i) == <<"ProcessorError", i>>
TimeoutError(i) == <<"Timeout", i>>
ErrorOf(res, i) == IF res = "timeout" THEN TimeoutError(i) ELSE ProcessorError(i)

\* the input arrays: <<1>>, <<1, 2>>, ... (the item is its own index)
Inputs == { [j \in 1 .. n |-> j] : n \in 0 .. MaxN }

\* the behaviours of the user's processor for one item: its first `plan`
\* invocations reject and the later ones fulfil (more than retryLimitCount
\* rejections are not told apart by the class), or its promise never settles
Behaviours ==
    { [plan |-> f, hang |-> FALSE] : f \in 0 .. (retryLimitCount + 1) }
        \cup { [plan |-> 0, hang |-> TRUE] }
Concurrencies == -1 .. MaxConcurrency
Timeouts == {-1, 0, 1}

\* how the promise of one processor invocation gets settled
Hows == {"settled", "micro", "macro"}

\* wait: "none", or what the pending promise of the processor waits for
NoTask == [st |-> "none", fn |-> 0, wrapped |-> FALSE, plan |-> 0,
           hang |-> FALSE, inv |-> 0,
           wait |-> "none", attempts |-> 0, race |-> "none", timer |-> "off",
           term |-> "none"]

DriverJob == [k |-> "driver", i |-> 0, res |-> "none"]
Job(kind, i, res) == [k |-> kind, i |-> i, res |-> res]

\* the mutable part of the instance, as one record the synchronous code
\* of a job transforms step by step
Cur == [data |-> data, results |-> results, inFlightTasks |-> inFlightTasks,
        processedEntries |-> processedEntries, processor |-> processor,
        eventEmitter |-> eventEmitter, promiseExecution |-> promiseExecution,
        error |-> error, driver |-> driver, task |-> task,
        microtasks |-> microtasks, stoppedBy |-> stoppedBy]

Commit(s) ==
    /\ data' = s.data
    /\ results' = s.results
    /\ inFlightTasks' = s.inFlightTasks
    /\ processedEntries' = s.processedEntries
    /\ processor' = s.processor
    /\ eventEmitter' = s.eventEmitter
    /\ promiseExecution' = s.promiseExecution
    /\ error' = s.error
    /\ driver' = s.driver
    /\ task' = s.task
    /\ microtasks' = s.microtasks
    /\ stoppedBy' = s.stoppedBy

Pop(s) == [s EXCEPT !.microtasks = Tail(@)]
Enqueue(s, job) == [s EXCEPT !.microtasks = Append(@, job)]

\* ---- promise settlement: a settled promise ignores later settlements ----
\* resolve also acts on a promise that is settled
resolveSettled(s) ==
    IF s.promiseExecution.state /= "null"
    THEN [s EXCEPT !.promiseExecution = [state |-> "resolved", reason |-> Null]]
    ELSE s

resolve(s) ==
    IF s.promiseExecution.state = "pending"
    THEN [s EXCEPT !.promiseExecution = [state |-> "resolved", reason |-> Null]]
    ELSE s

reject(s, reason) ==
    IF s.promiseExecution.state = "pending"
    THEN [s EXCEPT !.promiseExecution = [state |-> "rejected", reason |-> reason]]
    ELSE s

\* ---- eventEmitter.emit: the once-listeners run synchronously ----
\* the gate's listener is registered with `on`: it stays after it has run
EmitTaskCompletedKeepsListener(s) ==
    IF s.eventEmitter.taskCompleted
    THEN Enqueue([s EXCEPT !.driver.pc = "ready"], DriverJob)
    ELSE s

\* TASK_COMPLETED: the resolve of the promise the driver awaits in the gate
EmitTaskCompleted(s) ==
    IF s.eventEmitter.taskCompleted
    THEN Enqueue([s EXCEPT !.eventEmitter.taskCompleted = FALSE,
                           !.driver.pc = "ready"], DriverJob)
    ELSE s

\* the FINISH listener does not resolve the run
EmitFinishNoResolve(s) == [s EXCEPT !.eventEmitter.finish = FALSE]

\* FINISH: () => resolve(this.results)
EmitFinish(s) ==
    IF s.eventEmitter.finish
    THEN resolve([s EXCEPT !.eventEmitter.finish = FALSE])
    ELSE s

\* ERROR: () => reject(this.error)
EmitError(s) ==
    IF s.eventEmitter.error
    THEN reject([s EXCEPT !.eventEmitter.error = FALSE], s.error)
    ELSE s

\* ---- the user's processor ----
\* the outcome of invocation number n of a processor with plan f
Outcome(f, n) == IF n <= f THEN "err" ELSE "ok"

\* the reaction to the settlement of the user's promise: the continuation of
\* `await processor(data)` in retryableProcessor, or the reaction of Promise.race
Reaction(t, i) ==
    Job(IF t.wrapped THEN "retry" ELSE "race", i, Outcome(t.plan, t.inv))

\* processor(data) is called and returns a promise: one that is settled
\* already, one that a microtask of the processor settles, or one that a
\* macrotask settles (if ever)
InvokeProcessor(s, i, how) ==
    LET h == IF s.task[i].hang THEN "macro" ELSE how
        t == [s.task[i] EXCEPT !.inv = @ + 1,
                               !.wait = IF h = "settled" THEN "none" ELSE h]
        s1 == [s EXCEPT !.task[i] = t]
    IN CASE h = "settled" -> Enqueue(s1, Reaction(t, i))
         [] h = "micro" -> Enqueue(s1, Job("user", i, "none"))
         [] OTHER -> s1

\* the promise of the pending invocation for item i settles
SettleProcessor(s, i) ==
    Enqueue([s EXCEPT !.task[i].wait = "none"], Reaction(s.task[i], i))

\* ---- _waitForTaskCompletion, awaited by the driver ----
\* the gate closes one task too late
GateClosedOffByOne(s) == s.inFlightTasks > concurrency

\* the gate is closed only while some task is in flight
GateClosedOnlyWhenBusy(s) == s.inFlightTasks >= concurrency /\ s.inFlightTasks > 0

GateClosed(s) == s.inFlightTasks >= concurrency

\* the driver never waits for a slot
NeverWait(s) == Enqueue([s EXCEPT !.driver.pc = "ready"], DriverJob)

_waitForTaskCompletion(s) ==
    IF GateClosed(s)
    THEN [s EXCEPT !.eventEmitter.taskCompleted = TRUE, !.driver.pc = "suspended"]
    ELSE Enqueue([s EXCEPT !.driver.pc = "ready"], DriverJob)

\* ---- _executeTask up to `await Promise.race(operations)` ----
\* no timer is raced against the processor
ExecuteTaskNoTimer(s, i, b, how) ==
    InvokeProcessor([s EXCEPT !.inFlightTasks = @ + 1,
                              !.task[i] = [NoTask EXCEPT !.st = "running",
                                              !.fn = s.processor.fn,
                                              !.wrapped = s.processor.retryable,
                                              !.plan = b.plan,
                                              !.hang = b.hang,
                                              !.race = "pending"]], i, how)

_executeTask(s, i, b, how) ==
    LET s1 == [s EXCEPT !.inFlightTasks = @ + 1,
                        !.task[i] = [NoTask EXCEPT !.st = "running",
                                        !.fn = s.processor.fn,
                                        !.wrapped = s.processor.retryable,
                                        !.plan = b.plan,
                                        !.hang = b.hang,
                                        !.race = "pending"]]
        s2 == InvokeProcessor(s1, i, how)
    IN IF timeout > 0 THEN [s2 EXCEPT !.task[i].timer = "armed"] ELSE s2

\* ---- executeTasks: the head of `for (const element of this.data)` ----
\* the iteration goes from the last element to the first
executeTasksBackwards(s) ==
    IF s.driver.idx <= Len(s.data)
    THEN _waitForTaskCompletion(
             [s EXCEPT !.driver.element = s.data[Len(s.data) + 1 - s.driver.idx],
                       !.driver.idx = @ + 1])
    ELSE [s EXCEPT !.driver.pc = "done", !.driver.element = 0,
                   !.eventEmitter.finish = TRUE,
                   !.eventEmitter.error = TRUE]

\* the array iterator reads this.data.length at every step
executeTasks(s) ==
    IF s.driver.idx <= Len(s.data)
    THEN _waitForTaskCompletion(
             [s EXCEPT !.driver.element = s.data[s.driver.idx],
                       !.driver.idx = @ + 1])
    ELSE [s EXCEPT !.driver.pc = "done", !.driver.element = 0,
                   !.eventEmitter.finish = TRUE,
                   !.eventEmitter.error = TRUE]

\* the empty input takes the ordinary path
ExecuteProcessNoEmptyCase(s) ==
    IF s.promiseExecution.state /= "null"
    THEN [st |-> s, handle |-> "execution"]
    ELSE [st |-> executeTasks([s EXCEPT !.promiseExecution.state = "pending",
                                        !.driver.idx = 1]),
          handle |-> "execution"]

\* ---- _executeProcess ----
_executeProcess(s) ==
    IF Len(s.data) = 0
    THEN [st |-> EmitFinish(EmitTaskCompleted(s)), handle |-> "fresh"]
    ELSE IF s.promiseExecution.state /= "null"
    THEN [st |-> s, handle |-> "execution"]
    ELSE [st |-> executeTasks([s EXCEPT !.promiseExecution.state = "pending",
                                        !.driver.idx = 1]),
          handle |-> "execution"]

\* ---- the stop-on-failure branch of retryableProcessor ----
StopBranch(s, i) ==
    IF allowStopOnFailure
    THEN EmitFinish(EmitTaskCompleted(EmitError(
             [s EXCEPT !.inFlightTasks = 0,
                       !.processedEntries = 0,
                       !.data = <<>>,
                       !.stoppedBy = IF @ = 0 THEN i ELSE @])))
    ELSE s

\* one retry fewer than the limit
MayRetryOneLess(t) == retryLimitCount > 0 /\ t.attempts + 1 < retryLimitCount

\* one retry more than the limit
MayRetryOneMore(t) == t.attempts <= retryLimitCount

MayRetry(t) == retryLimitCount > 0 /\ t.attempts < retryLimitCount

\* a retry takes another slot
retryableProcessorTakesSlot(s, i, res, how) ==
    IF res = "ok"
    THEN Enqueue(s, Job("race", i, "ok"))
    ELSE IF MayRetry(s.task[i])
    THEN InvokeProcessor([s EXCEPT !.task[i].attempts = @ + 1,
                                   !.inFlightTasks = @ + 1], i, how)
    ELSE Enqueue(StopBranch(s, i), Job("race", i, "err"))

\* the continuation of `await processor(data)` in retryableProcessor
retryableProcessor(s, i, res, how) ==
    IF res = "ok"
    THEN Enqueue(s, Job("race", i, "ok"))
    ELSE IF MayRetry(s.task[i])
    THEN InvokeProcessor([s EXCEPT !.task[i].attempts = @ + 1], i, how)
    ELSE Enqueue(StopBranch(s, i), Job("race", i, "err"))

\* ---- the reaction of Promise.race: the first settlement wins ----
PromiseRace(s, i, res) ==
    IF s.task[i].race = "pending"
    THEN Enqueue([s EXCEPT !.task[i].race = res], Job("task", i, res))
    ELSE s

\* ---- _executeTask after the await: try / catch / finally ----
\* the result of a successful task is dropped
TaskBodyDropsResult(s, i, res) ==
    IF res = "ok" THEN s ELSE EmitError([s EXCEPT !.error = ErrorOf(res, i)])

\* the result of a successful task is put in front of the collection
TaskBodyPrepends(s, i, res) ==
    IF res = "ok"
    THEN [s EXCEPT !.results = <<i>> \o @]
    ELSE EmitError([s EXCEPT !.error = ErrorOf(res, i)])

TaskBody(s, i, res) ==
    IF res = "ok"
    THEN [s EXCEPT !.results = Append(@, i)]
    ELSE EmitError([s EXCEPT !.error = ErrorOf(res, i)])

\* the completion of a task does not wake the driver
TaskFinallyNoWake(s, i, res) ==
    LET s1 == [s EXCEPT !.inFlightTasks = @ - 1,
                        !.processedEntries = @ + 1,
                        !.task[i].st = "done",
                        !.task[i].term = res]
    IN IF s1.inFlightTasks = 0 /\ s1.processedEntries = Len(s1.data)
       THEN EmitFinish(s1)
       ELSE s1

TaskFinally(s, i, res) ==
    LET s1 == [s EXCEPT !.inFlightTasks = @ - 1,
                        !.processedEntries = @ + 1,
                        !.task[i].st = "done",
                        !.task[i].term = res]
        s2 == EmitTaskCompleted(s1)
    IN IF s2.inFlightTasks = 0 /\ s2.processedEntries = Len(s2.data)
       THEN EmitFinish(s2)
       ELSE s2

\* ---- the state after Arehs.create(data) ----
Init ==
    /\ input \in Inputs
    /\ data = input
    /\ results = <<>>
    /\ concurrency = DefaultConcurrency
    /\ inFlightTasks = 0
    /\ processedEntries = 0
    /\ processor = [fn |-> 0, retryable |-> FALSE]
    /\ eventEmitter = [taskCompleted |-> FALSE, finish |-> FALSE, error |-> FALSE]
    /\ promiseExecution = [state |-> "null", reason |-> Null]
    /\ timeout = DefaultTimeout
    /\ error = Null
    /\ allowStopOnFailure = FALSE
    /\ retryLimitCount = DefaultRetryLimit
    /\ driver = [pc |-> "idle", idx |-> 0, element |-> 0]
    /\ task = [i \in Items |-> NoTask]
    /\ microtasks = <<>>
    /\ calls = <<>>
    /\ stoppedBy = 0
    /\ thrown = FALSE

core == <<data, results, inFlightTasks, processedEntries, processor,
          eventEmitter, promiseExecution, error, driver, task, microtasks, calls,
          stoppedBy>>

\* ---- the builder calls ----
withConcurrency(c) ==
    /\ calls = <<>>
    /\ concurrency' = c
    /\ thrown' = FALSE
    /\ UNCHANGED <<input, timeout, allowStopOnFailure, retryLimitCount, core>>

\* a negative value is stored like any other
timeoutLimitUnchecked(ms) ==
    /\ calls = <<>>
    /\ thrown' = FALSE /\ timeout' = ms
    /\ UNCHANGED <<input, concurrency, allowStopOnFailure, retryLimitCount, core>>

timeoutLimit(ms) ==
    /\ calls = <<>>
    /\ IF ms < 0
       THEN thrown' = TRUE /\ UNCHANGED timeout
       ELSE thrown' = FALSE /\ timeout' = ms
    /\ UNCHANGED <<input, concurrency, allowStopOnFailure, retryLimitCount, core>>

stopOnFailure(b) ==
    /\ calls = <<>>
    /\ allowStopOnFailure' = b
    /\ thrown' = FALSE
    /\ UNCHANGED <<input, concurrency, timeout, retryLimitCount, core>>

\* setting the retry limit also turns stop-on-failure on
retryLimitAlsoStops(k) ==
    /\ calls = <<>>
    /\ retryLimitCount' = k
    /\ allowStopOnFailure' = TRUE
    /\ thrown' = FALSE
    /\ UNCHANGED <<input, concurrency, timeout, core>>

retryLimit(k) ==
    /\ calls = <<>>
    /\ retryLimitCount' = k
    /\ thrown' = FALSE
    /\ UNCHANGED <<input, concurrency, timeout, allowStopOnFailure, core>>

\* ---- mapAsync(processor) ----
mapAsync(s, p) ==
    _executeProcess([s EXCEPT !.processor = [fn |-> p,
                                             retryable |-> allowStopOnFailure]])

\* ---- the jobs ----
HeadIs(kind) == microtasks /= <<>> /\ Head(microtasks).k = kind

\* the user's code calls mapAsync for the first time
Run ==
    /\ calls = <<>>
    /\ LET r == mapAsync(Cur, 1)
       IN Commit(r.st) /\ calls' = <<r.handle>>
    /\ thrown' = FALSE
    /\ UNCHANGED <<input, concurrency, timeout, allowStopOnFailure, retryLimitCount>>

\* the driver resumes after `await this._waitForTaskCompletion()`
DriverStep ==
    /\ HeadIs("driver")
    /\ \E b \in Behaviours, how \in Hows :
           Commit(executeTasks(_executeTask(Pop(Cur), driver.element, b, how)))
    /\ UNCHANGED <<config, calls>>

\* a microtask of the user's processor settles the promise
ProcessorMicrotask ==
    /\ HeadIs("user")
    /\ Commit(SettleProcessor(Pop(Cur), Head(microtasks).i))
    /\ UNCHANGED <<config, calls>>

\* a microtask of the user's processor awaits once more
ProcessorAwaits ==
    /\ HeadIs("user")
    /\ Len(microtasks) > 1
    /\ Commit(Enqueue(Pop(Cur), Head(microtasks)))
    /\ UNCHANGED <<config, calls>>

\* a macrotask settles the promise returned by the user's processor
ProcessorSettles(i) ==
    /\ microtasks = <<>>
    /\ task[i].wait = "macro"
    /\ ~task[i].hang
    /\ Commit(SettleProcessor(Cur, i))
    /\ UNCHANGED <<config, calls>>

RetryableStep ==
    /\ HeadIs("retry")
    /\ \E how \in Hows :
           Commit(retryableProcessor(Pop(Cur), Head(microtasks).i,
                                     Head(microtasks).res, how))
    /\ UNCHANGED <<config, calls>>

RaceStep ==
    /\ HeadIs("race")
    /\ Commit(PromiseRace(Pop(Cur), Head(microtasks).i, Head(microtasks).res))
    /\ UNCHANGED <<config, calls>>

TaskStep ==
    /\ HeadIs("task")
    /\ LET i == Head(microtasks).i
           res == Head(microtasks).res
       IN Commit(TaskFinally(TaskBody(Pop(Cur), i, res), i, res))
    /\ UNCHANGED <<config, calls>>

\* the timer of setTimeout fires: a macrotask
TimerFires(i) ==
    /\ microtasks = <<>>
    /\ task[i].timer = "armed"
    /\ task[i].race = "pending"
    /\ Commit(Enqueue([Cur EXCEPT !.task[i].timer = "fired"], Job("race", i, "timeout")))
    /\ UNCHANGED <<config, calls>>

\* what the user does before the run, and what the event loop does
Steps ==
    \/ \E c \in Concurrencies : withConcurrency(c)
    \/ \E ms \in Timeouts : timeoutLimit(ms)
    \/ \E b \in BOOLEAN : stopOnFailure(b)
    \/ \E k \in 0 .. MaxRetry : retryLimit(k)
    \/ DriverStep
    \/ ProcessorMicrotask
    \/ ProcessorAwaits
    \/ \E i \in Items : ProcessorSettles(i)
    \/ RetryableStep
    \/ RaceStep
    \/ TaskStep
    \/ \E i \in Items : TimerFires(i)

\* one run: mapAsync is called once
Next == Steps \/ Run

Spec == Init /\ [][Next]_vars

\* ---- further mapAsync calls, with other processors ----
CallerJob == Job("call", 0, "none")

\* the first call, by code that goes on in a microtask queued before or
\* after the call
RunAndGoOn ==
    /\ calls = <<>>
    /\ LET r == mapAsync(Cur, 1)
       IN /\ \/ Commit(Enqueue(r.st, CallerJob))
             \/ Commit([r.st EXCEPT !.microtasks = <<CallerJob>> \o @])
          /\ calls' = <<r.handle>>
    /\ thrown' = FALSE
    /\ UNCHANGED <<input, concurrency, timeout, allowStopOnFailure, retryLimitCount>>

\* a microtask of the user's code: it calls mapAsync again, or awaits once more
CallerMicrotask ==
    /\ HeadIs("call")
    /\ \/ /\ Len(calls) < MaxCalls
          /\ LET r == mapAsync(Pop(Cur), Len(calls) + 1)
             IN /\ \/ Commit(r.st)
                   \/ Len(calls) + 1 < MaxCalls /\ Commit(Enqueue(r.st, CallerJob))
                /\ calls' = Append(calls, r.handle)
       \/ /\ Len(microtasks) > 1
          /\ Commit(Enqueue(Pop(Cur), CallerJob))
          /\ UNCHANGED calls
    /\ UNCHANGED config

\* a macrotask of the user's code calls mapAsync again
CallAgain ==
    /\ microtasks = <<>>
    /\ calls /= <<>>
    /\ Len(calls) < MaxCalls
    /\ LET r == mapAsync(Cur, Len(calls) + 1)
       IN Commit(r.st) /\ calls' = Append(calls, r.handle)
    /\ UNCHANGED config

NextCalls == Steps \/ Run \/ RunAndGoOn \/ CallerMicrotask \/ CallAgain

SpecCalls == Init /\ [][NextCalls]_vars

\* the event loop runs every queued job, timers fire, and the promise of a
\* processor that does not hang settles (after finitely many awaits)
Fairness ==
    /\ WF_vars(DriverStep)
    /\ SF_vars(ProcessorMicrotask)
    /\ WF_vars(RetryableStep)
    /\ WF_vars(RaceStep)
    /\ WF_vars(TaskStep)
    /\ \A i \in Items : WF_vars(ProcessorSettles(i))
    /\ \A i \in Items : WF_vars(TimerFires(i))

FairSpec == Spec /\ Fairness

\* the runs in which stop-on-failure keeps its default, false
NextKeepGoing ==
    \/ \E c \in Concurrencies : withConcurrency(c)
    \/ \E ms \in Timeouts : timeoutLimit(ms)
    \/ \E k \in 0 .. MaxRetry : retryLimit(k)
    \/ Run
    \/ DriverStep
    \/ ProcessorMicrotask
    \/ ProcessorAwaits
    \/ \E i \in Items : ProcessorSettles(i)
    \/ RaceStep
    \/ TaskStep
    \/ \E i \in Items : TimerFires(i)

FairSpecKeepGoing == Init /\ [][NextKeepGoing]_vars /\ Fairness

\* the runs in which the retry limit keeps its default, 0: a failure is not
\* retried (a processor that never settles never fails)
NextNoRetry ==
    \/ \E c \in Concurrencies : withConcurrency(c)
    \/ \E ms \in Timeouts : timeoutLimit(ms)
    \/ \E b \in BOOLEAN : stopOnFailure(b)
    \/ Run
    \/ DriverStep
    \/ ProcessorMicrotask
    \/ ProcessorAwaits
    \/ \E i \in Items : ProcessorSettles(i)
    \/ RetryableStep
    \/ RaceStep
    \/ TaskStep
    \/ \E i \in Items : TimerFires(i)

FairSpecNoRetry == Init /\ [][NextNoRetry]_vars /\ Fairness

\* ---- vocabulary of the properties ----
N == Len(input)
Started == calls /= <<>>
Failed(i) == task[i].term \in {"err", "timeout"}
Settled == promiseExecution.state \in {"resolved", "rejected"}
\* the processor invocations that have been started and have not settled
Outstanding == Cardinality({ i \in Items : task[i].wait /= "none" })
\* the outcome of the handle the first mapAsync call returned
RunOutcome ==
    IF calls[1] = "fresh"
    THEN [state |-> "resolved", value |-> <<>>, reason |-> Null]
    ELSE [state |-> promiseExecution.state, value |-> results,
          reason |-> promiseExecution.reason]
Occurrences(seq, x) == Cardinality({ k \in 1 .. Len(seq) : seq[k] = x })

\* ---- C1 ----
\* C1: with a concurrency limit C >= 1 the in-flight counter never exceeds C.
C1_InFlightWithinLimit == concurrency >= 1 => inFlightTasks <= concurrency

\* the pool is full and the driver is suspended in the gate
C1_PoolFull ==
    concurrency >= 1 /\ inFlightTasks = concurrency /\ driver.pc = "suspended"

\* ---- C2 ----
\* C2 as claimed: the number of processor invocations started and not yet
\* settled never exceeds C, in every configuration.
C2_OutstandingWithinLimit == concurrency >= 1 => Outstanding <= concurrency

\* C2 as amended: without a timeout the number of processor invocations
\* started and not yet settled never exceeds C.
C2_OutstandingWithinLimitNoTimeout ==
    (concurrency >= 1 /\ timeout = 0) => Outstanding <= concurrency

\* without a timeout, C invocations are outstanding and the driver waits
C2_AllSlotsOutstanding ==
    /\ concurrency >= 1 /\ timeout = 0
    /\ Outstanding = concurrency
    /\ driver.pc = "suspended"

\* ---- C3 ----
\* C3: with stop-on-failure, once a task has exhausted its retries a settled
\* run is rejected with exactly that task's error.
C3_RejectsWithTaskError ==
    (allowStopOnFailure /\ stoppedBy /= 0 /\ Settled)
        => /\ promiseExecution.state = "rejected"
           /\ promiseExecution.reason = ProcessorError(stoppedBy)

\* ---- C4 ----
\* C4: once the batch is aborted, no item that was not admitted before is
\* admitted.
C4_NoAdmissionAfterAbort ==
    [][stoppedBy /= 0 =>
          \A i \in Items : task[i].st = "none" => task'[i].st = "none"]_vars

\* ---- C5 ----
\* C5: without stop-on-failure, a run in which some task failed terminally
\* does not settle successfully.
C5_FailureFailsRun ==
    (~allowStopOnFailure /\ \E i \in Items : Failed(i))
        => promiseExecution.state /= "resolved"

\* ---- C6 ----
\* C6: when every processor invocation has succeeded and every task is
\* complete, the run is resolved with exactly N results, one per input item.
AllSucceeded == \A i \in 1 .. N : task[i].term = "ok" /\ task[i].plan = 0

C6_AllResultsOnce ==
    (Started /\ AllSucceeded)
        => /\ RunOutcome.state = "resolved"
           /\ Len(RunOutcome.value) = N
           /\ \A i \in 1 .. N : Occurrences(RunOutcome.value, i) = 1

\* two items succeeded, the second one first
C6_CompletedOutOfOrder ==
    Started /\ N = 2 /\ AllSucceeded /\ results = <<2, 1>>

\* ---- C7 ----
\* C7 as claimed: with K > 0, a task whose processor fails f <= K times and
\* then succeeds ends in success after f + 1 invocations, with stop-on-failure
\* on or off (no timeout configured).
C7_RetriesThenSucceeds ==
    \A i \in Items :
        (retryLimitCount > 0 /\ timeout = 0 /\ task[i].st = "done"
            /\ task[i].plan <= retryLimitCount)
        => (task[i].term = "ok" /\ task[i].inv = task[i].plan + 1)

\* C7 as amended: that holds with stop-on-failure enabled, for a task that
\* does not time out; with stop-on-failure disabled the retry limit is not
\* applied and the first invocation's outcome is terminal.
C7_RetriesOnlyWithStopOnFailure ==
    \A i \in Items :
        (retryLimitCount > 0 /\ task[i].st = "done" /\ task[i].term /= "timeout"
            /\ task[i].plan <= retryLimitCount)
        => IF allowStopOnFailure
           THEN task[i].term = "ok" /\ task[i].inv = task[i].plan + 1
           ELSE task[i].term = Outcome(task[i].plan, 1) /\ task[i].inv = 1

\* with stop-on-failure, a task succeeded after a failed first attempt
C7_SucceededAfterRetry ==
    \E i \in Items :
        /\ allowStopOnFailure /\ retryLimitCount > 0
        /\ task[i].st = "done" /\ task[i].plan >= 1
        /\ task[i].term = "ok" /\ task[i].inv = task[i].plan + 1

\* ---- C8 ----
\* C8: without stop-on-failure and with C >= 1, every input item is
\* eventually admitted and its processor invoked, unless a processor never
\* settles and no timeout is configured.
StuckOnHang == timeout = 0 /\ \E j \in Items : task[j].hang /\ task[j].st = "running"

C8_EveryItemInvoked ==
    (Started /\ ~allowStopOnFailure /\ concurrency >= 1)
        ~> ((\A i \in 1 .. N : task[i].inv >= 1) \/ StuckOnHang)

\* with one slot, the second item was invoked after the first one failed
C8_InvokedAfterFailure ==
    /\ ~allowStopOnFailure /\ concurrency = 1 /\ N = 2
    /\ Failed(1)
    /\ task[2].inv >= 1

\* ---- C9 ----
\* C9: a mapAsync call made while the first run is pending returns the
\* run's promise and starts nothing.
C9_SingleFlight ==
    [][(Len(calls') > Len(calls) /\ Started /\ N >= 1
            /\ promiseExecution.state = "pending")
        => /\ calls'[Len(calls')] = "execution"
           /\ driver' = driver
           /\ task' = task]_vars

\* ---- C10 ----
\* C10: a run over an empty input resolves with an empty collection and
\* touches neither the processor, the in-flight counter nor the gate.
C10_EmptyInput ==
    N = 0
        => /\ inFlightTasks = 0
           /\ driver.pc = "idle"
           /\ ~eventEmitter.taskCompleted
           /\ microtasks = <<>>
           /\ \A i \in Items : task[i].inv = 0
           /\ Started => /\ calls[1] = "fresh"
                         /\ RunOutcome.state = "resolved"
                         /\ RunOutcome.value = <<>>

\* mapAsync has been called on an empty input
C10_EmptyRun == N = 0 /\ Started

\* ---- C11 ----
\* task i reports its terminal outcome in this step
Terminates(i) == task[i].st = "running" /\ task'[i].st = "done"

\* C11: with a timeout D > 0, a task whose processor never settles eventually
\* ends in a Timeout failure; the step that ends it stores the timeout error,
\* decrements the in-flight counter, increments the finished counter and
\* wakes a suspended driver.
C11_HangingTaskTimesOut ==
    /\ \A i \in Items :
           (timeout > 0 /\ task[i].st = "running" /\ task[i].hang)
               ~> (task[i].st = "done" /\ task[i].term = "timeout")
    /\ [][\A i \in Items :
             (Terminates(i) /\ task[i].hang)
                 => /\ timeout > 0
                    /\ task'[i].term = "timeout"
                    /\ error' = TimeoutError(i)
                    /\ inFlightTasks' = inFlightTasks - 1
                    /\ processedEntries' = processedEntries + 1
                    /\ driver.pc = "suspended" => driver'.pc = "ready"]_vars

\* a task whose processor never settles has timed out while the driver
\* was waiting for its slot, and the driver went on
C11_TimedOutAndFreedSlot ==
    /\ timeout > 0 /\ concurrency = 1 /\ N = 2
    /\ task[1].hang /\ task[1].term = "timeout"
    /\ error = TimeoutError(1)
    /\ task[2].st /= "none"

\* ---- C12 ----
\* C12: without stop-on-failure and with C >= 1, the outcome of a started run
\* eventually settles, unless a processor never settles and no timeout is
\* configured.
C12_RunSettles ==
    (Started /\ ~allowStopOnFailure /\ concurrency >= 1)
        ~> ((Started /\ RunOutcome.state \in {"resolved", "rejected"}) \/ StuckOnHang)

\* with one slot the driver waited in the gate for a task that timed out,
\* and the run has settled after the second task
C12_SettledAfterWaiting ==
    /\ ~allowStopOnFailure /\ concurrency = 1 /\ N = 2
    /\ task[1].term = "timeout" /\ task[2].st = "done"
    /\ Settled

\* ---- C13 ----
\* C13: the results collection grows only by the result of the task that has
\* just completed successfully, appended at the end: results are in the order
\* of completion, whatever the order of admission.
C13_AppendedInCompletionOrder ==
    [][/\ \A i \in Items :
             (Terminates(i) /\ task'[i].term = "ok") => results' = Append(results, i)
       /\ (\A i \in Items : ~(Terminates(i) /\ task'[i].term = "ok"))
             => results' = results]_vars

\* item 1 was admitted first and item 2 completed first
C13_LaterAdmittedFirstCompleted ==
    /\ N = 2 /\ results = <<2>>
    /\ task[1].st = "running" /\ task[2].term = "ok"

\* ---- C14 ----
\* C14: a timeoutLimit call with a negative value throws and changes nothing:
\* the timeout and every other field keep their values and no run is started;
\* the timeout is never negative; timeoutLimit(0) is accepted, and with a
\* timeout of 0 no task has a timer.
C14_NegativeTimeoutRejected ==
    [][/\ thrown' => UNCHANGED <<input, concurrency, timeout, allowStopOnFailure,
                                  retryLimitCount, core>>
       /\ (\E ms \in Timeouts : ms < 0 /\ timeoutLimit(ms)) => thrown'
       /\ timeoutLimit(0) => (~thrown' /\ timeout' = 0)
       /\ timeout' >= 0
       /\ timeout' = 0 => \A i \in Items : task'[i].timer = "off"]_vars

\* a negative value was refused after a timeout had been configured
C14_RefusedAndKept == thrown /\ timeout = 1 /\ calls = <<>>

\* ---- C15 ----
\* C15: a new batch has concurrency limit 10, timeout 0, stop-on-failure
\* false and retry limit 0; a step that changes one of the four settings
\* changes no other setting, no counter and no other field, and the run
\* itself changes none of them.
C15_DefaultsAndFrame ==
    /\ concurrency = 10 /\ timeout = 0 /\ ~allowStopOnFailure /\ retryLimitCount = 0
    /\ [][(concurrency' /= concurrency
              => UNCHANGED <<input, timeout, allowStopOnFailure, retryLimitCount, core>>)
          /\ (timeout' /= timeout
              => UNCHANGED <<input, concurrency, allowStopOnFailure, retryLimitCount, core>>)
          /\ (allowStopOnFailure' /= allowStopOnFailure
              => UNCHANGED <<input, concurrency, timeout, retryLimitCount, core>>)
          /\ (retryLimitCount' /= retryLimitCount
              => UNCHANGED <<input, concurrency, timeout, allowStopOnFailure, core>>)
          /\ (Started
              => UNCHANGED <<concurrency, timeout, allowStopOnFailure,
                             retryLimitCount>>)]_vars

\* every setting was changed by its builder call and the run started with them
C15_AllConfigured ==
    /\ concurrency = 1 /\ timeout = 1 /\ allowStopOnFailure /\ retryLimitCount = 1
    /\ Started /\ inFlightTasks = 1 /\ processedEntries = 0

\* ---- C16 ----
\* C16: the in-flight counter is never negative.
C16_InFlightNonNegative == inFlightTasks >= 0

\* ---- C17 ----
\* the admitted tasks, and those that have not reported a terminal outcome
Admitted == { i \in Items : task[i].st /= "none" }
Running == { i \in Items : task[i].st = "running" }

\* the FINISH listener runs in this step
FinishDelivered == eventEmitter.finish /\ ~eventEmitter'.finish

\* C17: the finished count never exceeds N, and FINISH is delivered, and the
\* run resolved, only in a step after which the finished count is N, the
\* in-flight count is 0 and no admitted task is still running.
C17_FinishOnlyWhenAllFinished ==
    [][/\ processedEntries' <= N
       /\ (FinishDelivered
              \/ (promiseExecution.state = "pending"
                    /\ promiseExecution'.state = "resolved"))
            => /\ processedEntries' = N
               /\ inFlightTasks' = 0
               /\ \A i \in Items : task'[i].st /= "running"]_vars

\* ---- C18 ----
\* C18: every terminal outcome decrements the in-flight counter by one and
\* increments the finished counter by one, and in every state the number of
\* admitted items is in-flight + finished and the in-flight counter is the
\* number of admitted tasks that have not reported their outcome.
C18_BookkeepingExact ==
    /\ [](Cardinality(Admitted) = inFlightTasks + processedEntries)
    /\ [](inFlightTasks = Cardinality(Running))
    /\ [][\A i \in Items :
             Terminates(i) => /\ inFlightTasks' = inFlightTasks - 1
                              /\ processedEntries' = processedEntries + 1]_vars

\* ---- C19 ----
\* C19: the driver admits only items that were not admitted before; when it
\* has left the loop of a run that was not aborted every input item has been
\* admitted; a retry invokes the processor again for an item that is admitted
\* already: it admits nothing and changes neither the in-flight counter nor
\* the driver.
C19_AdmittedOnce ==
    /\ []((driver.pc = "done" /\ stoppedBy = 0) => Admitted = 1 .. N)
    /\ [][(DriverStep => (driver.element \in 1 .. N
                              /\ task[driver.element].st = "none"
                              /\ task'[driver.element].st = "running"))
          /\ (\A i \in Items :
                 (task[i].st /= "none" /\ task'[i].inv > task[i].inv)
                     => /\ Admitted' = Admitted
                        /\ inFlightTasks' = inFlightTasks
                        /\ driver' = driver)]_vars

\* a task is running its second invocation in the slot it was admitted to
C19_RetriedInSameSlot ==
    /\ concurrency = 1 /\ N = 2 /\ stoppedBy = 0
    /\ task[1].st = "running" /\ task[1].inv = 2
    /\ inFlightTasks = 1 /\ task[2].st = "none" /\ driver.pc = "suspended"

\* ---- C20 ----
\* C20: an item is admitted only after every item before it in the input; a
\* step admits at most one item, and after an admission that leaves items
\* to admit the driver has checked the gate again: it waits if and only if
\* the pool is full.
C20_AdmittedInInputOrder ==
    /\ [](\A i \in Items : i \in Admitted => \A j \in 1 .. i : j \in Admitted)
    /\ [][(Cardinality({ i \in Items : task[i].st = "none" /\ task'[i].st /= "none" }) <= 1)
          /\ ((DriverStep /\ driver'.pc /= "done")
                => (driver'.pc = "suspended" <=> inFlightTasks' >= concurrency))]_vars

\* with one slot, the second item was admitted after the first completed,
\* and not before
C20_NextAdmittedAfterCompletion ==
    /\ concurrency = 1 /\ N = 2
    /\ task[1].term = "ok" /\ task[2].st = "running"
    /\ inFlightTasks = 1 /\ processedEntries = 1

\* ---- C21 ----
\* the continuations of the gate's await that are queued
DriverJobs == { k \in 1 .. Len(microtasks) : microtasks[k].k = "driver" }

C22_SettlesAfterAllTasks ==
    (~allowStopOnFailure /\ Settled)
        => (processedEntries = N /\ Running = {})

\* ---- C23 ----
\* C23: without stop-on-failure, when two or more tasks have failed and all
\* tasks are done, a rejected run carries the error of the task that failed
\* last (the one the error slot holds at the end).
C23_RejectsWithLastError ==
    (/\ ~allowStopOnFailure
     /\ promiseExecution.state = "rejected"
     /\ driver.pc = "done" /\ Running = {}
     /\ Cardinality({ i \in Items : Failed(i) }) >= 2)
        => promiseExecution.reason = error

\* ---- C24 ----
\* C24: with stop-on-failure and retry limit K, no item's processor is
\* invoked more than K + 1 times; a task fails terminally with the
\* processor's error, and the stop-on-failure branch runs for an item, only
\* after K + 1 invocations, all of which failed.
C24_AtMostKPlusOne ==
    allowStopOnFailure
        => \A i \in Items :
              /\ task[i].inv <= retryLimitCount + 1
              /\ (task[i].term = "err" \/ stoppedBy = i)
                    => /\ task[i].inv = retryLimitCount + 1
                       /\ task[i].plan >= retryLimitCount + 1

\* the batch was aborted after the first attempt and one retry had failed
C24_AbortedAfterRetries ==
    /\ allowStopOnFailure /\ retryLimitCount = 1
    /\ stoppedBy = 1 /\ task[1].inv = 2 /\ task[1].term = "err"

\* ---- C25 ----
\* the settlement of a processor invocation of item i is handled in this step
HandlesSettlement(i) ==
    /\ microtasks /= <<>>
    /\ Head(microtasks).i = i
    /\ Head(microtasks).k \in {"retry", "race"}
    /\ Head(microtasks).res /= "timeout"

\* C25: once a task has timed out, the settlement of its processor
\* invocation changes neither the results, the counters, the input, the
\* listeners, the driver nor the run's promise.
C25_LateSettlementIgnored ==
    [][\A i \in Items :
          (task[i].term = "timeout" /\ HandlesSettlement(i))
              => UNCHANGED <<results, inFlightTasks, processedEntries, data,
                             eventEmitter, driver, promiseExecution, error>>]_vars

\* ---- C26 ----
\* C26: once a task's outcome is Timeout its processor is not invoked again.
C26_TimeoutNotRetried ==
    [][\A i \in Items :
          task[i].term = "timeout" => task'[i].inv = task[i].inv]_vars

\* ---- C27 ----
\* C27: with stop-on-failure, the step in which a task ends in a Timeout
\* clears the input and rejects a pending run with the timeout error, and
\* once a task has timed out no further item is admitted.
C27_TimeoutAborts ==
    [][\A i \in Items :
          /\ (allowStopOnFailure /\ Terminates(i) /\ task'[i].term = "timeout")
                => /\ data' = <<>>
                   /\ promiseExecution.state = "pending"
                         => promiseExecution' = [state |-> "rejected",
                                                 reason |-> TimeoutError(i)]
          /\ (allowStopOnFailure /\ task[i].term = "timeout")
                => Admitted' = Admitted]_vars

\* ---- C28 ----
\* C28: with stop-on-failure and C >= 1, once a task has exhausted its
\* retries the driver leaves its loop and the run is rejected.
C28_AbortRejects ==
    (allowStopOnFailure /\ concurrency >= 1 /\ stoppedBy /= 0)
        ~> (driver.pc = "done" /\ promiseExecution.state = "rejected")

\* ---- C29 ----
\* C29: a later mapAsync call changes neither the counters, the results nor
\* the error slot, and every item is processed by the processor of the
\* first call.
C29_FirstProcessorKept ==
    /\ [](\A i \in Admitted : task[i].fn = 1)
    /\ [][(Started /\ Len(calls') > Len(calls))
              => UNCHANGED <<inFlightTasks, processedEntries, results, error>>]_vars

\* ---- C30 ----
\* C30: the caller's input array keeps its N elements.
C30_InputUnchanged == data = input

C32_AlwaysFirstHandle ==
    N >= 1 => \A k \in 1 .. Len(calls) : calls[k] = "execution"

\* ---- C33 ----
\* C33: withConcurrency stores any number and does not throw; with a limit
\* C <= 0 and N >= 1 a started run stays as the first gate check left it:
\* the driver suspended holding the first item, nothing admitted, no
\* processor invoked, the run's promise pending.
C33_NonPositiveLimitBlocks ==
    /\ []((Started /\ concurrency <= 0 /\ N >= 1)
            => /\ driver = [pc |-> "suspended", idx |-> 2, element |-> 1]
               /\ Admitted = {}
               /\ \A i \in Items : task[i].inv = 0
               /\ inFlightTasks = 0 /\ processedEntries = 0
               /\ microtasks = <<>>
               /\ promiseExecution.state = "pending")
    /\ [][\A c \in Concurrencies :
             withConcurrency(c) => (concurrency' = c /\ ~thrown')]_vars

\* a run was started with a negative limit
C33_StartedWithNegativeLimit ==
    Started /\ concurrency < 0 /\ N = 2 /\ driver.pc = "suspended"
====
